---- MODULE Spec2Model ----
(***************************************************************************)
(* Model of the routing-and-dispatch layer of OpsAgent.                    *)
(*                                                                         *)
(*   SpecReg   the provider registry (mcp_integration/client.py:           *)
(*             MCPClientManager) used by concurrent asyncio callers, and   *)
(*             the specialist factory (agents/specialized_agent.py).       *)
(*   SpecCoord the coordinator graph (routing/coordinator.py): router,     *)
(*             conditional edge, agent wrapper, and the add_messages       *)
(*             reducer of shared/state.py.                                 *)
(*   SpecEdge  the conditional edge and the agent nodes on any state.      *)
(*   SpecRouter the router node on conversations with str and list         *)
(*             contents.                                                   *)
(*   SpecLoop  one run of an agent's loop inside agent.ainvoke.            *)
(*   SpecStart the startup, create_ops_coordinator, and the registry in    *)
(*             use afterwards.                                             *)
(*   SpecOps   create_ops_agent (agents/ops_agent/agent.py) on a registry  *)
(*             nothing has initialized.                                    *)
(*   SpecConf  the configuration (shared/config.py): config.yaml, the      *)
(*             environment and get_agent_config.                           *)
(*                                                                         *)
(* asyncio is cooperative: code between two awaits that suspend is one     *)
(* atomic step.  The only suspending awaits of the registry are the two    *)
(* calls of client.get_tools() (client.py:112 and :158).                   *)
(***************************************************************************)
EXTENDS Integers, Sequences, FiniteSets, TLC

\* ------------------------------------------------------------------ bounds
NumCallers == 2        \* concurrent asyncio tasks that use the registry
NumProviders == 2      \* configured tool providers
MaxGen == 1            \* times the servers change their tool sets
MaxInit == 2           \* turns in the conversation of the first invocation
MaxTurns == 2          \* invocations of the coordinator in one conversation
MaxRouted == 4         \* turns of a conversation the router is run on
MaxCalls == 2          \* tool invocations the model requests in one response

\* --------------------------------------------------------------- constants
\* The provider names the coordinator binds specialists to
\* (coordinator.py:229-231), and further ones a configuration may declare.
ProviderOrder == <<"aap_ansible", "openshift", "terraform", "extra_1", "extra_2">>
Providers == {ProviderOrder[i] : i \in 1..NumProviders}
\* A server name no configuration declares.
UnknownServer == "unknown_server"
\* get_tools(server_name=None)
NoServer == "None"
ServerArgs == Providers \cup {UnknownServer, NoServer}

Callers == 1..NumCallers

VARIABLES
    client,        \* self._client: <<>> is None, <<conns>> a MultiServerMCPClient
    tools_cache,   \* self._tools_cache: <<>> is None, <<list>> a list of tools
    initialized,   \* self._initialized
    pc,            \* per caller: "idle", or suspended in "init_await"/"refresh_await"
    mine,          \* per caller: connections of the client object it awaits on
    cont,          \* per caller: server of the specialist being built, or NoServer
    gen,           \* generation of the tool sets the servers currently expose
    cfgServers,    \* config.mcp.servers: provider -> "absent"/"disabled"/"enabled"
    cfgHeaders,    \* whether the server config objects carry a headers attribute
                   \* (MCPServerConfig, config.py:83-113, declares none)
    rlast          \* the latest registry operation and its outcome

VARIABLES
    messages,        \* RoutingState.messages: sequence of [id, type, content]
    route_decision,  \* RoutingState.route_decision, NoValue while unset
    current_agent,   \* RoutingState.current_agent, NoValue while unset
    cpc,             \* node of the graph to run next: "idle", "router", "agent"
    turns,           \* invocations of the graph so far
    nextId,          \* next fresh message id
    classified,      \* the classification call was made in this invocation
    cls,             \* how that call ended, NoValue when it was not made
    handed,          \* <<>> or <<seq>>: what this invocation passed to agent.ainvoke
    status,          \* how the latest invocation ended: "none", "ok", "raised"
    entered,         \* the conversation the latest invocation started from
    cfgPrompts,      \* config.agent_prompts: "no_attr", "empty" or "text"
    asked,           \* <<>> or <<prompt>>: what this invocation's router sent to
                     \* the classifier
    path             \* the nodes the latest invocation has run, in order

\* One run of an agent's loop (the graph create_react_agent builds) inside
\* agent.ainvoke.
VARIABLES
    lpc,      \* "off", or the node to run next: "agent", "tools"; "done", "raised"
    lstep,    \* number of the superstep to run next
    lcalls,   \* model calls made
    ltrips,   \* tool executions completed, one per round trip
    lend,     \* how the loop ended: "none", "final", "ceiling", "error", "tool_error"
    lmsgs,    \* the messages of the loop's state
    lscn      \* this run's model and servers: the tool the model asks for,
              \* how many invocations of it a response requests, and how
              \* executing it goes

\* The startup of the service, create_ops_coordinator run by asyncio.run
\* (graph.py:30).
VARIABLES
    spos,          \* "off", the agent being built, "done" or "failed"
    built,         \* per agent: <<>> or <<the tool list the agent was created with>>
    slog,          \* the registry operations the startup made, in order
    cfgMcpEnabled  \* config.mcp.enabled (config.py:121)

\* The configuration of the process (shared/config.py).
VARIABLES
    config_file,      \* <<>>: no config.yaml is found; <<data>>: what
                      \* yaml.safe_load returns, per field <<>> or <<value>>
    environ,          \* os.environ: per variable <<>> (unset) or <<str>>
    config_instance,  \* _config_instance (config.py:234): <<>> is None
    config_status     \* "none", "ok", or the exception get_agent_config raised

confVars == <<config_file, environ, config_instance, config_status>>

startVars == <<spos, built, slog, cfgMcpEnabled>>

loopVars == <<lpc, lstep, lcalls, ltrips, lend, lmsgs, lscn>>

coordVars == <<messages, route_decision, current_agent, cpc, turns, nextId,
               classified, cls, handed, status, entered, cfgPrompts, asked,
               path, loopVars>>

regVars == <<client, tools_cache, initialized, pc, mine, cont, gen,
             cfgServers, cfgHeaders, rlast, startVars>>

vars == <<regVars, coordVars, confVars>>

\* ---------------------------------------------------------------- helpers
None == <<>>
Some(x) == <<x>>
IsNone(o) == o = <<>>
Val(o) == o[1]

\* The tools one server exposes in generation g (two per server).
ToolsOf(P, g) ==
    << [server |-> P, name |-> "list", gen |-> g],
       [server |-> P, name |-> "run", gen |-> g] >>

RECURSIVE DiscoverFrom(_, _, _)
DiscoverFrom(i, conns, g) ==
    IF i > NumProviders THEN <<>>
    ELSE (IF ProviderOrder[i] \in conns THEN ToolsOf(ProviderOrder[i], g) ELSE <<>>)
         \o DiscoverFrom(i + 1, conns, g)

\* What MultiServerMCPClient(conns).get_tools() returns when every server
\* answers: the tools of all connections, in one flat list.
Discover(conns, g) == DiscoverFrom(1, conns, g)

\* The record of one registry operation: what was called, how it ended
\* ("ok", "noop", "suspended", "raised", "refused"), what it returned, and,
\* the connections of the client used and, for a discovery, the servers that
\* failed.  For
\* an initialize made by the specialist factory, server is the provider the
\* specialist is bound to and ret the tool list the specialist was built with.
Op(op, server, conns, how, ret, failed) ==
    [op |-> op, server |-> server, conns |-> conns, how |-> how,
     ret |-> ret, failed |-> failed]

\* The servers the current client is connected to.
Connected == IF IsNone(client) THEN {} ELSE Val(client)

\* MCPClientManager.get_tools(server_name): the value returned.
GetToolsNoInitCheck(server_name) ==
    IF IsNone(tools_cache) THEN <<>> ELSE Val(tools_cache)

GetTools(server_name) ==
    IF ~initialized THEN <<>>
    ELSE IF IsNone(tools_cache) THEN <<>>
    ELSE Val(tools_cache)

\* config.mcp.servers: each provider is absent, disabled or enabled.
ServerConfigs == [Providers -> {"absent", "disabled", "enabled"}]
\* The enabled servers of a server_configs dict (client.py:85-98).
Enabled(cfg) == {P \in Providers : cfg[P] = "enabled"}
Configured(cfg) == {P \in Providers : cfg[P] # "absent"}

\* ------------------------------------------------------------ the registry
RegInit ==
    /\ client = None
    /\ tools_cache = None
    /\ initialized = FALSE
    /\ pc = [p \in Callers |-> "idle"]
    /\ mine = [p \in Callers |-> {}]
    /\ cont = [p \in Callers |-> NoServer]
    /\ gen = 0
    /\ cfgServers \in ServerConfigs
    /\ cfgHeaders \in BOOLEAN
    /\ rlast = Op("none", NoServer, {}, "none", <<>>, {})

\* client.py:80  if self._initialized: return
AlreadyInitializedNever == FALSE

AlreadyInitialized == initialized

\* MCPClientManager.initialize up to its first suspension (client.py:80-112),
\* called by p with a server_configs dict whose enabled servers are conns;
\* building names the provider of the specialist whose factory made the call
\* (NoServer for any other caller).  When initialize returns without
\* suspending, the factory goes on to get_tools (specialized_agent.py:70).
InitializeEnter(p, conns, building) ==
    IF AlreadyInitialized THEN
        /\ rlast' = Op("initialize", building, conns, "noop",
                       IF building = NoServer THEN <<>> ELSE GetTools(building), {})
        /\ UNCHANGED <<client, tools_cache, initialized, pc, mine, cont>>
    ELSE IF conns = {} THEN
        /\ initialized' = TRUE
        /\ rlast' = Op("initialize", building, conns, "ok",
                       IF building = NoServer \/ IsNone(tools_cache) THEN <<>>
                       ELSE Val(tools_cache), {})
        /\ UNCHANGED <<client, tools_cache, pc, mine, cont>>
    ELSE
        /\ client' = Some(conns)
        /\ pc' = [pc EXCEPT ![p] = "init_await"]
        /\ mine' = [mine EXCEPT ![p] = conns]
        /\ cont' = [cont EXCEPT ![p] = building]
        /\ rlast' = Op("initialize", building, conns, "suspended", <<>>, {})
        /\ UNCHANGED <<tools_cache, initialized>>

\* A direct call of initialize (agent.py:85 and any other caller).
Initialize(p, cfg) ==
    /\ pc[p] = "idle"
    /\ InitializeEnter(p, Enabled(cfg), NoServer)
    /\ UNCHANGED <<gen, cfgServers, cfgHeaders>>
    /\ UNCHANGED startVars
    /\ UNCHANGED <<coordVars, confVars>>

\* The awaited client.get_tools() of initialize completes (client.py:112-122);
\* failed is the set of connected servers whose discovery failed.  The client
\* raises as soon as one server fails.  A factory that made the call goes on
\* to get_tools when initialize returns, and fails when it raises.
InitializeReturns(p, failed) ==
    /\ pc[p] = "init_await"
    /\ failed \subseteq mine[p]
    /\ pc' = [pc EXCEPT ![p] = "idle"]
    /\ mine' = [mine EXCEPT ![p] = {}]
    /\ cont' = [cont EXCEPT ![p] = NoServer]
    /\ IF failed = {} THEN
            /\ tools_cache' = Some(Discover(mine[p], gen))
            /\ initialized' = TRUE
            /\ rlast' = Op("initialize", cont[p], mine[p], "ok",
                           IF cont[p] = NoServer THEN <<>>
                           ELSE Discover(mine[p], gen), failed)
       ELSE
            /\ initialized' = FALSE
            /\ rlast' = Op("initialize", cont[p], mine[p], "raised", <<>>, failed)
            /\ UNCHANGED tools_cache
    /\ UNCHANGED <<client, gen, cfgServers, cfgHeaders>>
    /\ UNCHANGED <<coordVars, confVars>>

\* That completion for a caller other than the startup.
InitializeResume(p, failed) ==
    /\ InitializeReturns(p, failed)
    /\ UNCHANGED startVars

\* MCPClientManager.get_tools called by p (client.py:124-143): no suspension.
GetToolsCall(p, server_name) ==
    /\ pc[p] = "idle"
    /\ rlast' = Op("get_tools", server_name, Connected, "ok", GetTools(server_name), {})
    /\ UNCHANGED <<client, tools_cache, initialized, pc, mine, cont, gen,
                   cfgServers, cfgHeaders>>
    /\ UNCHANGED startVars
    /\ UNCHANGED <<coordVars, confVars>>

\* MCPClientManager.refresh_tools up to its suspension (client.py:152-158).
RefreshEnter(p) ==
    /\ pc[p] = "idle"
    /\ IF ~initialized \/ IsNone(client) THEN
            /\ rlast' = Op("refresh_tools", NoServer, {}, "refused", <<>>, {})
            /\ UNCHANGED <<pc, mine>>
       ELSE
            /\ pc' = [pc EXCEPT ![p] = "refresh_await"]
            /\ mine' = [mine EXCEPT ![p] = Val(client)]
            /\ rlast' = Op("refresh_tools", NoServer, Val(client), "suspended",
                           <<>>, {})
    /\ UNCHANGED <<client, tools_cache, initialized, cont, gen, cfgServers,
                   cfgHeaders>>
    /\ UNCHANGED startVars
    /\ UNCHANGED <<coordVars, confVars>>

\* How refresh_tools ends when the re-discovery raised (client.py:161-163):
\* the exception is logged and self._tools_cache or [] is returned.
RefreshFailureRaises == [how |-> "raised", ret |-> <<>>]

RefreshFailure ==
    [how |-> "ok", ret |-> IF IsNone(tools_cache) THEN <<>> ELSE Val(tools_cache)]

\* The awaited client.get_tools() of refresh_tools completes (client.py:158-163):
\* the name _tools_cache is bound to the list the client returned.
RefreshResumeInPlace(p, failed) ==
    /\ pc[p] = "refresh_await"
    /\ failed \subseteq mine[p]
    /\ pc' = [pc EXCEPT ![p] = "idle"]
    /\ mine' = [mine EXCEPT ![p] = {}]
    /\ IF failed = {} THEN
            /\ tools_cache' =
                 Some([i \in 1..Len(Discover(mine[p], gen)) |->
                        IF i = 1 \/ IsNone(tools_cache) \/ i > Len(Val(tools_cache))
                        THEN Discover(mine[p], gen)[i]
                        ELSE Val(tools_cache)[i]])
            /\ rlast' = Op("refresh_tools", NoServer, mine[p], "ok",
                           Discover(mine[p], gen), failed)
       ELSE
            /\ rlast' = Op("refresh_tools", NoServer, mine[p], RefreshFailure.how,
                           RefreshFailure.ret, failed)
            /\ UNCHANGED tools_cache
    /\ UNCHANGED <<client, initialized, cont, gen, cfgServers, cfgHeaders>>
    /\ UNCHANGED startVars
    /\ UNCHANGED <<coordVars, confVars>>

RefreshResume(p, failed) ==
    /\ pc[p] = "refresh_await"
    /\ failed \subseteq mine[p]
    /\ pc' = [pc EXCEPT ![p] = "idle"]
    /\ mine' = [mine EXCEPT ![p] = {}]
    /\ IF failed = {} THEN
            /\ tools_cache' = Some(Discover(mine[p], gen))
            /\ rlast' = Op("refresh_tools", NoServer, mine[p], "ok",
                           Discover(mine[p], gen), failed)
       ELSE
            /\ rlast' = Op("refresh_tools", NoServer, mine[p], RefreshFailure.how,
                           RefreshFailure.ret, failed)
            /\ UNCHANGED tools_cache
    /\ UNCHANGED <<client, initialized, cont, gen, cfgServers, cfgHeaders>>
    /\ UNCHANGED startVars
    /\ UNCHANGED <<coordVars, confVars>>

\* MCPClientManager.close (client.py:165-173): no suspension.  The record
\* keeps what was released: the connections of the client and the cached
\* tools.
CloseKeepsInitialized(p) ==
    /\ pc[p] = "idle"
    /\ client' = None
    /\ tools_cache' = None
    /\ rlast' = Op("close", NoServer, Connected, "ok",
                   IF IsNone(tools_cache) THEN <<>> ELSE Val(tools_cache), {})
    /\ UNCHANGED <<initialized, pc, mine, cont, gen, cfgServers, cfgHeaders>>
    /\ UNCHANGED startVars
    /\ UNCHANGED <<coordVars, confVars>>

Close(p) ==
    /\ pc[p] = "idle"
    /\ client' = None
    /\ tools_cache' = None
    /\ initialized' = FALSE
    /\ rlast' = Op("close", NoServer, Connected, "ok",
                   IF IsNone(tools_cache) THEN <<>> ELSE Val(tools_cache), {})
    /\ UNCHANGED <<pc, mine, cont, gen, cfgServers, cfgHeaders>>
    /\ UNCHANGED startVars
    /\ UNCHANGED <<coordVars, confVars>>

\* create_specialized_agent(server_name, prompt_key) called by p
\* (specialized_agent.py:52-91).  An uninitialized registry is initialized
\* first with every configured server; building that dict reads
\* srv_config.headers of each configured server (line 65), an attribute
\* MCPServerConfig (config.py:83-113) does not declare.
NotYetInitializedAlways == TRUE

\* specialized_agent.py:55  if not mcp_manager._initialized:
NotYetInitialized == ~initialized

CreateSpecializedAgent(p, server_name) ==
    /\ pc[p] = "idle"
    /\ IF ~NotYetInitialized THEN
            /\ rlast' = Op("build", server_name, Connected, "ok",
                           GetTools(server_name), {})
            /\ UNCHANGED <<client, tools_cache, initialized, pc, mine, cont>>
       ELSE IF Configured(cfgServers) # {} /\ ~cfgHeaders THEN
            /\ rlast' = Op("build", server_name, {}, "raised", <<>>, {})
            /\ UNCHANGED <<client, tools_cache, initialized, pc, mine, cont>>
       ELSE InitializeEnter(p, Enabled(cfgServers), server_name)
    /\ UNCHANGED <<gen, cfgServers, cfgHeaders>>
    /\ UNCHANGED <<coordVars, confVars>>

\* A factory call by a caller other than the startup.
Build(p, server_name) ==
    /\ CreateSpecializedAgent(p, server_name)
    /\ UNCHANGED startVars

\* The servers change the tools they expose.
ServerChange ==
    /\ gen < MaxGen
    /\ gen' = gen + 1
    /\ UNCHANGED <<client, tools_cache, initialized, pc, mine, cont,
                   cfgServers, cfgHeaders, rlast>>
    /\ UNCHANGED startVars
    /\ UNCHANGED <<coordVars, confVars>>

RegNext ==
    \/ \E p \in Callers, cfg \in ServerConfigs : Initialize(p, cfg)
    \/ \E p \in Callers, failed \in SUBSET Providers : InitializeResume(p, failed)
    \/ \E p \in Callers, s \in ServerArgs : GetToolsCall(p, s)
    \/ \E p \in Callers : RefreshEnter(p)
    \/ \E p \in Callers, failed \in SUBSET Providers : RefreshResume(p, failed)
    \/ \E p \in Callers : Close(p)
    \/ \E p \in Callers, s \in Providers : Build(p, s)
    \/ ServerChange

\* ---------------------------------------------------------- the coordinator
NoValue == "null"
DefaultAgent == "ops_agent"
\* The specialists built by create_specialized_agent carry _prompt_key
\* (specialized_agent.py:89); the agent of create_ops_agent does not.
Specialized == {"ansible_agent", "openshift_agent", "terraform_agent"}
\* RouteClassification.agent, and the nodes of the graph.
Agents == Specialized \cup {DefaultAgent}

\* How classifier.invoke ends: an agent of the schema, or a failure.
\* "malformed" is output the RouteClassification schema rejects.
ClassifierFailures == {"timeout", "malformed", "transport"}
ClassifierOutcomes == Agents \cup ClassifierFailures

\* How the specialist's loop (agent.ainvoke) ends: the turns it produced, or
\* an exception.
LoopAnswers == { <<"ai">>, <<"ai", "tool", "ai">> }
LoopOutcomes == LoopAnswers \cup { <<"error">> }

\* The content of a message is a str or a list of parts.  A message with a
\* str has the field content; one with a list has the field parts instead.
\* A part of a list is a dict, which may have a text key, or a str (a record
\* with the one field str).
Msg(id, type, content) == [id |-> id, type |-> type, content |-> content]
PartsMsg(id, type, parts) == [id |-> id, type |-> type, parts |-> parts]
IsList(m) == "parts" \in DOMAIN m
IsDict(part) == "str" \notin DOMAIN part
TextPart(t) == [type |-> "text", text |-> t]
ImagePart == [type |-> "image_url"]
StrPart(t) == [str |-> t]

\* Turns a caller supplies: user turns with text or whitespace-only content,
\* and specialist turns.
CallerTurns == { [type |-> "human", content |-> "text"],
                 [type |-> "human", content |-> "  "],
                 [type |-> "ai", content |-> "text"] }
\* The conversations of a first invocation: at most MaxInit turns, led or not
\* by one directive turn.
Bodies == UNION { [1..n -> CallerTurns] : n \in 0..MaxInit }
InitialConversations ==
    Bodies \cup { <<[type |-> "system", content |-> "text"]>> \o b : b \in Bodies }

\* Fresh ids from id0 on for a sequence of [type, content].
WithIds(ms, id0) ==
    [i \in 1..Len(ms) |->
        IF IsList(ms[i]) THEN PartsMsg(id0 + i - 1, ms[i].type, ms[i].parts)
        ELSE Msg(id0 + i - 1, ms[i].type, ms[i].content)]

IndexOfId(ms, id) ==
    IF \E i \in 1..Len(ms) : ms[i].id = id
    THEN CHOOSE i \in 1..Len(ms) : ms[i].id = id
    ELSE 0

\* The add_messages reducer of RoutingState.messages (state.py:14) merges
\* right into left one message after the other: a message whose id is
\* already in the list replaces that entry in place, any other is appended.
\* LastWithId is the message that ends up under an id of right; FirstNew
\* are the places of right where an id not yet in the list comes first.
LastWithId(right, id) ==
    right[CHOOSE j \in 1..Len(right) :
            /\ right[j].id = id
            /\ \A k \in (j + 1)..Len(right) : right[k].id # id]

FirstNew(left, right) ==
    {j \in 1..Len(right) :
        /\ IndexOfId(left, right[j].id) = 0
        /\ \A k \in 1..(j - 1) : right[k].id # right[j].id}

Replaced(left, right) ==
    [i \in 1..Len(left) |->
        IF \E j \in 1..Len(right) : right[j].id = left[i].id
        THEN LastWithId(right, left[i].id)
        ELSE left[i]]

Appended(left, right) ==
    LET new == FirstNew(left, right)
        places == SelectSeq([j \in 1..Len(right) |-> j], LAMBDA j : j \in new)
    IN  [k \in 1..Len(places) |-> LastWithId(right, right[places[k]].id)]

AddMessagesPrepending(left, right) ==
    Appended(left, right) \o Replaced(left, right)

AddMessages(left, right) ==
    Replaced(left, right) \o Appended(left, right)

NumSystem(ms) == Cardinality({i \in 1..Len(ms) : ms[i].type = "system"})
HumanIdx(ms) == {i \in 1..Len(ms) : ms[i].type = "human"}
\* user_messages[-1] (coordinator.py:70-74)
LastUserMessage(ms) == ms[CHOOSE i \in HumanIdx(ms) : \A j \in HumanIdx(ms) : j <= i]

\* The text the router takes from the latest user turn (coordinator.py:75-83):
\* of a list its first element, the text entry of a dict ('' when the dict
\* has none) or the str of anything else, and '' for an empty list.
ExtractText(m) ==
    IF IsList(m) THEN
        IF Len(m.parts) > 0 /\ IsDict(m.parts[1])
        THEN (IF "text" \in DOMAIN m.parts[1] THEN m.parts[1].text ELSE "")
        ELSE IF Len(m.parts) > 0 THEN m.parts[1].str
        ELSE ""
    ELSE m.content

\* str.strip(): the text without its leading and trailing whitespace.
IsSpace(c) == c \in {" ", "\t", "\n", "\r"}

StripNothing(t) == t

Strip(t) ==
    LET idx == {i \in 1..Len(t) : ~IsSpace(SubSeq(t, i, i))}
    IN  IF idx = {} THEN ""
        ELSE SubSeq(t, CHOOSE i \in idx : \A j \in idx : i <= j,
                       CHOOSE i \in idx : \A j \in idx : j <= i)

\* The context window of the classification prompt (coordinator.py:88-100).
\* msg_content of a turn (lines 94-98): of a non-empty list its first
\* element as above, of an empty list its str, "[]".
MsgContent(m) ==
    IF IsList(m) /\ Len(m.parts) > 0 THEN
        IF IsDict(m.parts[1])
        THEN (IF "text" \in DOMAIN m.parts[1] THEN m.parts[1].text ELSE "")
        ELSE m.parts[1].str
    ELSE IF IsList(m) THEN "[]"
    ELSE m.content

\* msg_content[:200] + "..." if len(msg_content) > 200 else msg_content
TruncLimit == 200

MsgTextNoMarker(t) ==
    IF Len(t) > TruncLimit THEN SubSeq(t, 1, TruncLimit) ELSE t

MsgText(t) ==
    IF Len(t) > TruncLimit THEN SubSeq(t, 1, TruncLimit) \o "..." ELSE t

Sender(m) == IF m.type = "ai" THEN "Agent" ELSE "User"

\* messages[-3:] if len(messages) >= 3 else messages[-2:]
RecentMessages(ms) ==
    IF Len(ms) >= 3 THEN SubSeq(ms, Len(ms) - 2, Len(ms))
    ELSE SubSeq(ms, Len(ms) - 1, Len(ms))

RECURSIVE ContextLines(_, _)
ContextLines(recent, i) ==
    IF i > Len(recent) THEN ""
    ELSE Sender(recent[i]) \o ": " \o MsgText(MsgContent(recent[i])) \o "\n"
         \o ContextLines(recent, i + 1)

ConversationContext(ms) ==
    IF Len(ms) >= 2 THEN ContextLines(RecentMessages(ms), 1) ELSE ""

\* What the HumanMessage of the classification prompt is built from
\* (coordinator.py:145): the context window and content, which is '' (line
\* 75) until the text of the latest user turn is extracted.
ClassificationPromptNamingAgent(ms) ==
    [context |-> "Previous agent: " \o current_agent \o "\n"
                 \o ConversationContext(ms),
     content |-> IF HumanIdx(ms) = {} THEN ""
                 ELSE ExtractText(LastUserMessage(ms))]

ClassificationPrompt(ms) ==
    [context |-> ConversationContext(ms),
     content |-> IF HumanIdx(ms) = {} THEN ""
                 ELSE ExtractText(LastUserMessage(ms))]

\* router (coordinator.py:62-154) on the messages of the state, with the
\* classification call, if made, ending as outcome: the decision returned
\* and whether the classifier was invoked.
FallbackOnFailureMissing(outcome) == outcome

FallbackOnFailure(outcome) ==
    IF outcome \in ClassifierFailures THEN DefaultAgent ELSE outcome

ShortCircuitsNoHumanCheck(ms) ==
    \/ ms = <<>>
    \/ HumanIdx(ms) # {}
       /\ Strip(ExtractText(LastUserMessage(ms))) = ""

\* The router returns the default without classifying (coordinator.py:65-86).
ShortCircuits(ms) ==
    \/ ms = <<>>
    \/ HumanIdx(ms) = {}
    \/ Strip(ExtractText(LastUserMessage(ms))) = ""

RouterResultNoDefault(ms, outcome) ==
    IF ShortCircuits(ms)
    THEN [decision |-> NoValue, called |-> FALSE, prompt |-> None]
    ELSE [decision |-> FallbackOnFailure(outcome), called |-> TRUE,
          prompt |-> Some(ClassificationPrompt(ms))]

RouterResult(ms, outcome) ==
    IF ShortCircuits(ms)
    THEN [decision |-> DefaultAgent, called |-> FALSE, prompt |-> None]
    ELSE [decision |-> FallbackOnFailure(outcome), called |-> TRUE,
          prompt |-> Some(ClassificationPrompt(ms))]

\* No loop is running.
NoScenario == [tool |-> NoValue, outcome |-> NoValue, calls |-> 0]

LoopAtRest ==
    /\ lpc = "off" /\ lstep = 0 /\ lcalls = 0 /\ ltrips = 0
    /\ lend = "none" /\ lmsgs = <<>> /\ lscn = NoScenario

CoordInit ==
    /\ LoopAtRest
    /\ messages = <<>>
    /\ route_decision = NoValue
    /\ current_agent = NoValue
    /\ cpc = "idle"
    /\ turns = 0
    /\ nextId = 1
    /\ classified = FALSE
    /\ cls = NoValue
    /\ handed = None
    /\ status = "none"
    /\ entered = <<>>
    /\ path = <<>>
    /\ asked = None
    /\ cfgPrompts \in {"no_attr", "empty", "text"}

\* The caller invokes the graph: the first time with the state of a
\* conversation (its turns and the agent that was active in it, if any),
\* later with the state so far and one more user turn.  The input passes
\* through the add_messages reducer, which gives each new turn an id.
Invoke(input, active) ==
    /\ cpc = "idle"
    /\ turns < MaxTurns
    /\ IF turns = 0 THEN input \in InitialConversations
       ELSE /\ input \in { <<t>> : t \in {u \in CallerTurns : u.type = "human"} }
            /\ active = current_agent
    /\ current_agent' = active
    /\ messages' = AddMessages(messages, WithIds(input, nextId))
    /\ entered' = AddMessages(messages, WithIds(input, nextId))
    /\ nextId' = nextId + Len(input)
    /\ turns' = turns + 1
    /\ cpc' = "router"
    /\ classified' = FALSE
    /\ cls' = NoValue
    /\ handed' = None
    /\ status' = "none"
    /\ path' = <<>>
    /\ asked' = None
    /\ UNCHANGED <<route_decision, cfgPrompts>>
    /\ UNCHANGED loopVars
    /\ UNCHANGED <<regVars, confVars>>

\* The edges of the graph (coordinator.py:252-268): what follows a node that
\* has returned.  START leads to the router, the router to the conditional
\* edge ("agent": one agent node is to be selected), every agent node to END
\* ("idle": the invocation is over).
SuccessorBackToRouter(node) == IF node = "router" THEN "agent" ELSE "router"

Successor(node) == IF node = "router" THEN "agent" ELSE "idle"

\* The router node (coordinator.py:62-154).
Router(outcome) ==
    /\ cpc = "router"
    /\ LET result == RouterResult(messages, outcome)
       IN  /\ route_decision' = result.decision
           /\ classified' = result.called
           /\ cls' = IF result.called THEN outcome ELSE NoValue
           /\ asked' = result.prompt
    /\ path' = Append(path, "router")
    /\ cpc' = Successor("router")
    /\ UNCHANGED <<messages, current_agent, turns, nextId, handed, status,
                   entered, cfgPrompts>>
    /\ UNCHANGED loopVars
    /\ UNCHANGED <<regVars, confVars>>

\* The conditional edge function (coordinator.py:159-161).
RouteToAgent == route_decision

\* The path map of the conditional edge (coordinator.py:253-262): the node
\* a returned name selects; a name that is no key of the map is a KeyError.
EdgeError == "KeyError"
EdgeTarget(name) == IF name \in Agents THEN name ELSE EdgeError

HasPromptKey(agent) == agent \in Specialized

\* The agent_name each node's wrapper is created with (coordinator.py:246-249).
WrapperNameSwapped(node) ==
    IF node = DefaultAgent THEN "ansible_agent" ELSE node

WrapperName(node) == node

\* The instruction text the configuration holds for an agent's prompt key:
\* getattr(config.agent_prompts, agent._prompt_key, "").  AgentConfig
\* (config.py:131-159) declares no agent_prompts section; cfgPrompts =
\* "no_attr" is that configuration, the other two are a configuration with
\* the section the coordinator and the specialist factory are written for.
PromptText(agent) == IF cfgPrompts = "text" THEN "prompt" ELSE ""

\* The turn sequence agent_execution passes to agent.ainvoke
\* (coordinator.py:186-193); the prepended directive gets the id fresh.
Augmented(ms, agent, fresh) ==
    IF HasPromptKey(agent) /\ PromptText(agent) # "" /\ ms[1].type # "system"
    THEN <<Msg(fresh, "system", PromptText(agent))>> \o ms
    ELSE ms

\* The conditional edge and the agent wrapper node (coordinator.py:178-203)
\* of the agent the edge selects; out is how the specialist's loop ends.
AgentExecution(out) ==
    /\ cpc = "agent"
    /\ IF EdgeTarget(RouteToAgent) = EdgeError THEN
            /\ status' = "raised"
            /\ UNCHANGED <<messages, current_agent, nextId, handed, path>>
       ELSE IF messages = <<>> THEN
            \* coordinator.py:183-184
            /\ current_agent' = WrapperName(RouteToAgent)
            /\ status' = "ok"
            /\ path' = Append(path, EdgeTarget(RouteToAgent))
            /\ UNCHANGED <<messages, nextId, handed>>
       ELSE IF HasPromptKey(RouteToAgent) /\ cfgPrompts = "no_attr" THEN
            \* coordinator.py:189: AgentConfig declares no agent_prompts
            /\ status' = "raised"
            /\ path' = Append(path, EdgeTarget(RouteToAgent))
            /\ UNCHANGED <<messages, current_agent, nextId, handed>>
       ELSE
            LET given == Augmented(messages, RouteToAgent, nextId)
                new == WithIds([i \in 1..Len(out) |-> [type |-> out[i], content |-> "text"]],
                               nextId + 1)
            IN  /\ handed' = Some(given)
                /\ path' = Append(path, EdgeTarget(RouteToAgent))
                /\ nextId' = nextId + 1 + Len(out)
                /\ IF out \in LoopAnswers THEN
                        /\ messages' = AddMessages(messages, given \o new)
                        /\ current_agent' = WrapperName(RouteToAgent)
                        /\ status' = "ok"
                   ELSE
                        /\ status' = "raised"
                        /\ UNCHANGED <<messages, current_agent>>
    \* an exception ends the invocation; a node that returns is followed by
    \* its edge
    /\ cpc' = IF status' = "ok" THEN Successor(EdgeTarget(RouteToAgent)) ELSE "idle"
    /\ UNCHANGED <<route_decision, turns, classified, cls, entered, cfgPrompts,
                   asked>>
    /\ UNCHANGED loopVars
    /\ UNCHANGED <<regVars, confVars>>

CoordNext ==
    \/ \E input \in InitialConversations \cup { <<t>> : t \in CallerTurns },
          active \in Agents \cup {NoValue} : Invoke(input, active)
    \/ \E outcome \in ClassifierOutcomes : Router(outcome)
    \/ \E out \in LoopOutcomes : AgentExecution(out)

\* ------------------------------------------------------ the configuration
\* The fields of AgentConfig the model follows and their built-in defaults
\* (config.py:20-23, 38-42, 136-143): a bool, a str, a str that is
\* normalised and an int.  api_key, default_model, embedding_model,
\* system_prompt and agent_instructions are overridden as name is,
\* embedding_dims as max_tokens is.
Defaults ==
    [debug |-> FALSE,
     name |-> "OpsAgent",
     base_url |-> "https://lss-lss.apps.prod.rhoai.rh-aiservices-bu.com/v1/openai/v1",
     max_tokens |-> 2000]

Fields == DOMAIN Defaults

\* The environment variable of each field (config.py:165, 169, 180, 181).
EnvVar ==
    [debug |-> "DEBUG", name |-> "AGENT_NAME", base_url |-> "LLM_BASE_URL",
     max_tokens |-> "LLM_MAX_TOKENS"]

EnvVars == {EnvVar[f] : f \in Fields}

\* Values a deployment sets the variables to.
EnvValues ==
    [DEBUG |-> {"true", "TRUE", "false"},
     AGENT_NAME |-> {"EnvAgent"},
     LLM_BASE_URL |-> {"http://env/v1/"},
     LLM_MAX_TOKENS |-> {"100", "many"}]

\* What yaml.safe_load returns for the config.yaml files of the model; a
\* field the file does not name is <<>>.  max_tokens: 0 does not validate
\* (config.py:38-41, gt=0).
FileData ==
    [debug : {None, Some(TRUE)},
     name : {None, Some("FileAgent")},
     base_url : {None, Some("http://file/v1/")},
     max_tokens : {None, Some(500), Some(0)}]

\* os.getenv(var, default)
Getenv(var, default) ==
    IF IsNone(environ[var]) THEN default ELSE Val(environ[var])

Digits == "0123456789"

DigitOf(d) == SubSeq(Digits, d + 1, d + 1)

\* str(n) of a non-negative int
RECURSIVE Str(_)
Str(n) == IF n < 10 THEN DigitOf(n) ELSE Str(n \div 10) \o DigitOf(n % 10)

\* Whether int(s) returns, for the strs of the model: decimal digits only.
IsInt(s) ==
    /\ s # ""
    /\ \A i \in 1..Len(s) : \E d \in 0..9 : DigitOf(d) = SubSeq(s, i, i)

\* int(s)
RECURSIVE Int_(_)
Int_(s) ==
    IF s = "" THEN 0
    ELSE 10 * Int_(SubSeq(s, 1, Len(s) - 1))
         + (CHOOSE d \in 0..9 : DigitOf(d) = SubSeq(s, Len(s), Len(s)))

UpperCase == "ABCDEFGHIJKLMNOPQRSTUVWXYZ"

LowerCase == "abcdefghijklmnopqrstuvwxyz"

LowerChar(c) ==
    IF \E i \in 1..26 : SubSeq(UpperCase, i, i) = c
    THEN LET i == CHOOSE j \in 1..26 : SubSeq(UpperCase, j, j) = c
         IN  SubSeq(LowerCase, i, i)
    ELSE c

\* s.lower()
RECURSIVE Lower(_)
Lower(s) ==
    IF s = "" THEN ""
    ELSE LowerChar(SubSeq(s, 1, 1)) \o Lower(SubSeq(s, 2, Len(s)))

\* s.rstrip("/")
RECURSIVE RStrip(_)
RStrip(s) ==
    IF s # "" /\ SubSeq(s, Len(s), Len(s)) = "/"
    THEN RStrip(SubSeq(s, 1, Len(s) - 1))
    ELSE s

\* cls(**data) (config.py:215, 222, 226): a field data does not name takes
\* its default.
FromData(data) ==
    [f \in Fields |-> IF IsNone(data[f]) THEN Defaults[f] ELSE Val(data[f])]

\* The field constraints pydantic validates at construction.
Validates(cfg) == cfg.max_tokens > 0

\* The value _env_override assigns to cfg.debug (config.py:180).
DebugOverride(cfg) == Lower(Getenv("DEBUG", "false")) = "true"

\* The value _env_override assigns to cfg.name (config.py:181).
NameOverride(cfg) == Getenv("AGENT_NAME", cfg.name)

\* AgentConfig._env_override (config.py:161-183); int() of a str that is no
\* number raises ValueError.
EnvOverride(cfg) ==
    LET tokens == Getenv("LLM_MAX_TOKENS", Str(cfg.max_tokens))
    IN  IF ~IsInt(tokens) THEN [how |-> "ValueError", cfg |-> None]
        ELSE [how |-> "ok",
              cfg |-> Some([debug |-> DebugOverride(cfg),
                            name |-> NameOverride(cfg),
                            base_url |-> RStrip(Getenv("LLM_BASE_URL", cfg.base_url)),
                            max_tokens |-> Int_(tokens)])]

\* AgentConfig.load() (config.py:185-230) with no path given.
Load ==
    IF IsNone(config_file) THEN EnvOverride(Defaults)
    ELSE IF \A f \in Fields : IsNone(Val(config_file)[f])
         THEN EnvOverride(Defaults)
    ELSE IF ~Validates(FromData(Val(config_file)))
         THEN [how |-> "RuntimeError", cfg |-> None]
    ELSE EnvOverride(FromData(Val(config_file)))

ConfAtRest ==
    /\ config_file = None
    /\ environ = [v \in EnvVars |-> None]
    /\ config_instance = None
    /\ config_status = "none"

\* The deployment sets a variable of the environment before the
\* configuration is loaded.
Setenv(var, value) ==
    /\ IsNone(config_instance)
    /\ IsNone(environ[var])
    /\ environ' = [environ EXCEPT ![var] = Some(value)]
    /\ UNCHANGED <<config_file, config_instance, config_status>>
    /\ UNCHANGED <<regVars, coordVars>>

\* get_agent_config (config.py:237-249): the first call loads and caches,
\* later calls return the cached instance; an exception of load leaves the
\* cache unset.
GetAgentConfig ==
    /\ IF IsNone(config_instance) THEN
            /\ config_status' = Load.how
            /\ config_instance' = Load.cfg
       ELSE /\ config_status' = "ok"
            /\ UNCHANGED config_instance
    /\ UNCHANGED <<config_file, environ>>
    /\ UNCHANGED <<regVars, coordVars>>

\* ------------------------------------------------------- the specifications
\* No startup is running.
StartAtRest ==
    /\ spos = "off"
    /\ built = [a \in Agents |-> None]
    /\ slog = <<>>
    /\ cfgMcpEnabled = FALSE

\* The registry under concurrent callers; no conversation runs.
CoordAtRest ==
    /\ messages = <<>> /\ route_decision = NoValue /\ current_agent = NoValue
    /\ cpc = "idle" /\ turns = 0 /\ nextId = 1 /\ classified = FALSE
    /\ cls = NoValue
    /\ handed = None /\ status = "none" /\ entered = <<>>
    /\ path = <<>> /\ asked = None
    /\ cfgPrompts = "no_attr"
    /\ LoopAtRest

RegStart == RegInit /\ StartAtRest /\ CoordAtRest /\ ConfAtRest

SpecReg == RegStart /\ [][RegNext]_vars

\* One conversation through the coordinator; the registry is not touched.
RegAtRest ==
    /\ client = None /\ tools_cache = None /\ initialized = FALSE
    /\ pc = [p \in Callers |-> "idle"] /\ mine = [p \in Callers |-> {}]
    /\ cont = [p \in Callers |-> NoServer] /\ gen = 0
    /\ cfgServers = [P \in Providers |-> "absent"] /\ cfgHeaders = FALSE
    /\ rlast = Op("none", NoServer, {}, "none", <<>>, {})
    /\ StartAtRest

CoordStart == CoordInit /\ RegAtRest /\ ConfAtRest

SpecCoord == CoordStart /\ [][CoordNext]_vars

\* The conditional edge and the agent nodes on any RoutingState: messages a
\* conversation, route_decision and current_agent any str (state.py:22-23).
UnknownAgent == "network_agent"

EdgeStart ==
    /\ \E c \in InitialConversations : messages = WithIds(c, 1)
    /\ entered = messages
    /\ nextId = Len(messages) + 1
    /\ route_decision \in Agents \cup {UnknownAgent}
    /\ current_agent \in Agents \cup {NoValue}
    /\ cpc = "agent" /\ turns = 1
    /\ classified = FALSE /\ cls = NoValue /\ asked = None
    /\ handed = None /\ status = "none"
    /\ path = <<"router">>
    /\ cfgPrompts \in {"no_attr", "empty", "text"}
    /\ LoopAtRest
    /\ RegAtRest
    /\ ConfAtRest

EdgeNext == \E out \in LoopOutcomes : AgentExecution(out)

SpecEdge == EdgeStart /\ [][EdgeNext]_vars

\* The router on any conversation of at most MaxRouted turns, whose contents
\* are strs (short, whitespace-only, of more than TruncLimit and of exactly
\* TruncLimit characters) and lists of parts.
RECURSIVE Pad(_)
Pad(n) ==
    IF n = 0 THEN ""
    ELSE IF n % 2 = 1 THEN "x" \o Pad(n - 1)
    ELSE Pad(n \div 2) \o Pad(n \div 2)

RouterTurns ==
    { [type |-> "human", content |-> "list pods"],
      [type |-> "human", content |-> " \t\n"],
      [type |-> "human", parts |-> <<ImagePart, TextPart("list pods")>>],
      [type |-> "human", parts |-> <<TextPart("  "), TextPart("list pods")>>],
      [type |-> "human", parts |-> <<StrPart("show jobs")>>],
      [type |-> "human", parts |-> <<>>],
      [type |-> "ai", content |-> Pad(TruncLimit)],
      [type |-> "ai", content |-> Pad(TruncLimit + 1)] }

RoutedConversations == UNION { [1..n -> RouterTurns] : n \in 0..MaxRouted }

RouterStart ==
    /\ \E c \in RoutedConversations : messages = WithIds(c, 1)
    /\ entered = messages
    /\ nextId = Len(messages) + 1
    /\ route_decision = NoValue
    /\ current_agent = NoValue
    /\ cpc = "router" /\ turns = 1
    /\ classified = FALSE /\ cls = NoValue /\ asked = None
    /\ handed = None /\ status = "none"
    /\ path = <<>>
    /\ cfgPrompts = "no_attr"
    /\ LoopAtRest
    /\ RegAtRest
    /\ ConfAtRest

RouterNext == \E outcome \in ClassifierOutcomes : Router(outcome)

SpecRouter == RouterStart /\ [][RouterNext]_vars

\* ------------------------------------------------------- the agent's loop
\* agent.ainvoke(..., config={"recursion_limit": 50}) (coordinator.py:195-198)
\* runs the graph of create_react_agent (specialized_agent.py:80-84,
\* ops_agent/agent.py:198-202): an agent node that calls the model and a
\* tools node that executes the requested tool, in alternating supersteps.
\* The first node runs in superstep 1; the graph may run supersteps up to
\* the recursion limit.
RecursionLimit == 50
Stop == RecursionLimit
OutOfSteps(step) == step > Stop
RemainingSteps(step) == Stop - step

\* The agent node answers in place of the model when the model asks for a
\* tool and fewer than two supersteps remain.
MoreStepsNeededNever(remaining, has_tool_calls) == FALSE

MoreStepsNeeded(remaining, has_tool_calls) == has_tool_calls /\ remaining < 2

SorryText == "Sorry, need more steps to process this request."

\* Agent-side tools of ops_agent (ALL_TOOLS, tools/__init__.py:28), here the
\* two of ansible_tools.py:21-41 and :102-132.
AllTools == {"list_ansible_inventories", "run_ansible_job"}
UnknownTool == "no_such_tool"
ToolFailures == {"http_error", "timeout", "transport"}
ToolOutcomes == {"ok"} \cup ToolFailures
Scenarios ==
    [tool : AllTools \cup {UnknownTool}, outcome : ToolOutcomes, calls : 1..MaxCalls]

\* The names of the tools an agent is bound to: the registry's tools it was
\* built with, and for ops_agent the agent-side tools (agent.py:108).
McpToolNames == {GetTools(NoServer)[i].name : i \in DOMAIN GetTools(NoServer)}
BoundTools(agent) ==
    McpToolNames \cup (IF agent = DefaultAgent THEN AllTools ELSE {})

\* A tool function of ansible_tools.py called while the HTTP request ends as
\* outcome: what it returns, or that it raises.
RunToolNoCatch(name, outcome) ==
    IF outcome = "ok" THEN [raised |-> FALSE, value |-> "response " \o name]
    ELSE [raised |-> TRUE, value |-> outcome]

RunTool(name, outcome) ==
    IF outcome = "ok" THEN [raised |-> FALSE, value |-> "response " \o name]
    ELSE IF name = "list_ansible_inventories"
    THEN [raised |-> FALSE, value |-> "Error: Failed to list inventories - " \o outcome]
    ELSE [raised |-> FALSE, value |-> "Error: Failed to run job - " \o outcome]

\* The tools node on one requested tool call: the tool-result turn it
\* produces.  A name that is not among the bound tools gives an error turn;
\* an exception of a tool is turned into an error turn as well.
ToolNodeResultNoValidate(bound, name, outcome) ==
    IF name \notin bound
    THEN [raised |-> TRUE, content |-> "KeyError " \o name]
    ELSE [raised |-> FALSE, content |-> RunTool(name, outcome).value]

ToolNodeResult(bound, name, outcome) ==
    IF name \notin bound
    THEN [raised |-> FALSE,
          content |-> "Error: " \o name \o " is not a valid tool, try one of [...]."]
    ELSE IF RunTool(name, outcome).raised
    THEN [raised |-> FALSE,
          content |-> "Error: " \o RunTool(name, outcome).value
                      \o " Please fix your mistakes."]
    ELSE [raised |-> FALSE, content |-> RunTool(name, outcome).value]

CallText(name) == "call " \o name
Last(ms) == ms[Len(ms)]

\* A tool-result turn names the invocation it answers: tool_call_id is the
\* place of that invocation among the tool calls of the model's response.
ToolMsg(id, content, call) ==
    [id |-> id, type |-> "tool", content |-> content, tool_call_id |-> call]

\* The tools node runs the invocations of one response concurrently and
\* returns their results as one list, in the order of the tool calls of the
\* response, whatever the order they completed in.
ResultOrderAsCompleted(requested, completed) == completed

ResultOrder(requested, completed) == requested

\* agent_execution up to agent.ainvoke (coordinator.py:182-198) when the
\* loop is entered; scn is the model and the servers of this run.
LoopEnter(scn) ==
    /\ cpc = "agent" /\ lpc = "off"
    /\ EdgeTarget(RouteToAgent) # EdgeError
    /\ messages # <<>>
    /\ ~(HasPromptKey(RouteToAgent) /\ cfgPrompts = "no_attr")
    /\ handed' = Some(Augmented(messages, RouteToAgent, nextId))
    /\ lmsgs' = Augmented(messages, RouteToAgent, nextId)
    /\ nextId' = nextId + 1
    /\ cpc' = "loop"
    /\ lpc' = "agent" /\ lstep' = 1 /\ lcalls' = 0 /\ ltrips' = 0
    /\ lend' = "none" /\ lscn' = scn
    /\ path' = Append(path, EdgeTarget(RouteToAgent))
    /\ UNCHANGED <<messages, route_decision, current_agent, turns, classified,
                   cls, status, entered, cfgPrompts, asked>>
    /\ UNCHANGED <<regVars, confVars>>

\* One superstep of the agent node; resp is what the model does: "final"
\* (an answer without tool call), "call" (a request for the run's tool) or
\* "error" (the call fails).
ModelCall(resp) ==
    /\ lpc = "agent"
    /\ IF OutOfSteps(lstep) THEN
            /\ lpc' = "raised" /\ lend' = "ceiling"
            /\ UNCHANGED <<lstep, lcalls, lmsgs, nextId>>
       ELSE IF resp = "error" THEN
            /\ lpc' = "raised" /\ lend' = "error"
            /\ lcalls' = lcalls + 1
            /\ UNCHANGED <<lstep, lmsgs, nextId>>
       ELSE IF MoreStepsNeeded(RemainingSteps(lstep), resp = "call") THEN
            /\ lmsgs' = Append(lmsgs, Msg(nextId, "ai", SorryText))
            /\ nextId' = nextId + 1
            /\ lcalls' = lcalls + 1
            /\ lpc' = "done" /\ lend' = "ceiling"
            /\ UNCHANGED lstep
       ELSE IF resp = "call" THEN
            /\ lmsgs' = Append(lmsgs, Msg(nextId, "ai", CallText(lscn.tool)))
            /\ nextId' = nextId + 1
            /\ lcalls' = lcalls + 1
            /\ lstep' = lstep + 1
            /\ lpc' = "tools"
            /\ UNCHANGED lend
       ELSE
            /\ lmsgs' = Append(lmsgs, Msg(nextId, "ai", "text"))
            /\ nextId' = nextId + 1
            /\ lcalls' = lcalls + 1
            /\ lpc' = "done" /\ lend' = "final"
            /\ UNCHANGED lstep
    /\ UNCHANGED <<ltrips, lscn>>
    /\ UNCHANGED <<messages, route_decision, current_agent, cpc, turns,
                   classified, cls, handed, status, entered, cfgPrompts, path,
                   asked>>
    /\ UNCHANGED <<regVars, confVars>>

\* One superstep of the tools node: all invocations of the latest response
\* are executed, completing in the order completed, and their tool-result
\* turns are appended together.
ToolsExec(completed) ==
    /\ lpc = "tools"
    /\ completed \in Permutations(1..lscn.calls)
    /\ LET r == ToolNodeResult(BoundTools(RouteToAgent), lscn.tool, lscn.outcome)
           order == ResultOrder([k \in 1..lscn.calls |-> k], completed)
       IN  IF OutOfSteps(lstep) THEN
                /\ lpc' = "raised" /\ lend' = "ceiling"
                /\ UNCHANGED <<lstep, ltrips, lmsgs, nextId>>
           ELSE IF r.raised THEN
                /\ lpc' = "raised" /\ lend' = "tool_error"
                /\ UNCHANGED <<lstep, ltrips, lmsgs, nextId>>
           ELSE
                /\ lmsgs' = lmsgs \o [k \in 1..lscn.calls |->
                                        ToolMsg(nextId + k - 1, r.content, order[k])]
                /\ nextId' = nextId + lscn.calls
                /\ lstep' = lstep + 1
                /\ ltrips' = ltrips + 1
                /\ lpc' = "agent"
                /\ UNCHANGED lend
    /\ UNCHANGED <<lcalls, lscn>>
    /\ UNCHANGED <<messages, route_decision, current_agent, cpc, turns,
                   classified, cls, handed, status, entered, cfgPrompts, path,
                   asked>>
    /\ UNCHANGED <<regVars, confVars>>

\* agent.ainvoke returns and agent_execution returns the loop's messages and
\* its name (coordinator.py:200-203); the reducer merges the messages.
LoopReturn ==
    /\ cpc = "loop" /\ lpc = "done"
    /\ messages' = AddMessages(messages, lmsgs)
    /\ current_agent' = WrapperName(RouteToAgent)
    /\ status' = "ok"
    /\ cpc' = Successor(EdgeTarget(RouteToAgent))
    /\ lpc' = "off"
    /\ UNCHANGED <<lstep, lcalls, ltrips, lend, lmsgs, lscn>>
    /\ UNCHANGED <<route_decision, turns, nextId, classified, cls, handed,
                   entered, cfgPrompts, path, asked>>
    /\ UNCHANGED <<regVars, confVars>>

\* agent.ainvoke raises: agent_execution has no handler, the turn fails.
LoopRaise ==
    /\ cpc = "loop" /\ lpc = "raised"
    /\ status' = "raised"
    /\ cpc' = "idle"
    /\ lpc' = "off"
    /\ UNCHANGED <<lstep, lcalls, ltrips, lend, lmsgs, lscn>>
    /\ UNCHANGED <<messages, route_decision, current_agent, turns, nextId,
                   classified, cls, handed, entered, cfgPrompts, path, asked>>
    /\ UNCHANGED <<regVars, confVars>>

\* The router has decided for a conversation of one user turn; the agents
\* were built while the registry had no tools.
LoopStart ==
    /\ messages = <<Msg(1, "human", "text")>>
    /\ entered = messages
    /\ nextId = 2
    /\ route_decision \in Agents
    /\ current_agent = NoValue
    /\ cpc = "agent" /\ turns = 1
    /\ classified = TRUE /\ cls = route_decision
    /\ asked = Some(ClassificationPrompt(messages))
    /\ handed = None /\ status = "none"
    /\ path = <<"router">>
    /\ cfgPrompts \in {"no_attr", "empty", "text"}
    /\ LoopAtRest
    /\ RegAtRest
    /\ ConfAtRest

LoopNext ==
    \/ \E scn \in Scenarios : LoopEnter(scn)
    \/ \E resp \in {"final", "call", "error"} : ModelCall(resp)
    \/ \E completed \in UNION { Permutations(1..n) : n \in 1..MaxCalls } :
            ToolsExec(completed)
    \/ LoopReturn
    \/ LoopRaise

SpecLoop == LoopStart /\ [][LoopNext]_vars

\* ------------------------------------------------------------- the startup
\* create_ops_coordinator (coordinator.py:208-276), run once by asyncio.run
\* when the service starts (graph.py:30): the three specialists are built
\* one after the other, then the ops agent, then the graph.  No other task
\* runs until it returns.
StartupTask == 1

\* The server each specialist is bound to (coordinator.py:229-231).
ServerOf(agent) ==
    IF agent = "ansible_agent" THEN "aap_ansible"
    ELSE IF agent = "openshift_agent" THEN "openshift"
    ELSE "terraform"

\* The agent built after agent (coordinator.py:229-234).
BuiltAfter(agent) ==
    IF agent = "ansible_agent" THEN "openshift_agent"
    ELSE IF agent = "openshift_agent" THEN "terraform_agent"
    ELSE IF agent = "terraform_agent" THEN DefaultAgent
    ELSE "done"

\* ALL_TOOLS (tools/__init__.py:28), the agent-side tools of ops_agent.
MemoryTool == [server |-> "agent_side", name |-> "upsert_memory", gen |-> 0]

AgentSideTools ==
    << MemoryTool,
       [server |-> "agent_side", name |-> "list_ansible_inventories", gen |-> 0],
       [server |-> "agent_side", name |-> "run_ansible_job", gen |-> 0] >>

\* The list _load_tools_async returns (agent.py:61, 90-91, 108, 113):
\* the registry's tools, none when MCP is disabled or its loading raised,
\* then always ALL_TOOLS.
LoadedToolsMcpExclusively(mcp_tools) ==
    IF mcp_tools # <<>> THEN Append(mcp_tools, MemoryTool) ELSE <<MemoryTool>>

LoadedTools(mcp_tools) == mcp_tools \o AgentSideTools

\* The tool list an agent holds: the one it was created with
\* (create_react_agent(tools=tools), specialized_agent.py:80-84, agent.py:198-202).
AgentToolsFromRegistry(agent) ==
    GetTools(NoServer) \o (IF agent = DefaultAgent THEN AgentSideTools ELSE <<>>)

AgentTools(agent) == Val(built[agent])

StartInit ==
    /\ RegInit
    /\ spos = "ansible_agent"
    /\ built = [a \in Agents |-> None]
    /\ slog = <<>>
    /\ cfgMcpEnabled \in BOOLEAN
    /\ CoordAtRest
    /\ ConfAtRest

\* One create_specialized_agent call of the startup up to its return or its
\* suspension in the discovery of initialize.  An exception is not handled
\* by create_ops_coordinator: the startup fails.
StartSpecialist ==
    /\ spos \in Specialized
    /\ CreateSpecializedAgent(StartupTask, ServerOf(spos))
    /\ slog' = Append(slog, rlast')
    /\ IF rlast'.how = "suspended" THEN UNCHANGED <<spos, built>>
       ELSE IF rlast'.how = "raised" THEN spos' = "failed" /\ UNCHANGED built
       ELSE /\ built' = [built EXCEPT ![spos] = Some(rlast'.ret)]
            /\ spos' = BuiltAfter(spos)
    /\ UNCHANGED cfgMcpEnabled

\* create_ops_agent (agent.py:116-207) with _load_tools_async (agent.py:29-113)
\* up to its return or its suspension in the discovery of initialize: the
\* registry's tools when config.mcp.enabled, then always the agent-side ones.
StartOps ==
    /\ spos = DefaultAgent
    /\ pc[StartupTask] = "idle"
    /\ IF cfgMcpEnabled THEN
            /\ InitializeEnter(StartupTask, Enabled(cfgServers), NoServer)
            /\ slog' = Append(slog, rlast')
            /\ IF rlast'.how = "suspended" THEN UNCHANGED <<spos, built>>
               ELSE /\ built' = [built EXCEPT ![DefaultAgent] =
                                    Some(LoadedTools(GetTools(NoServer)'))]
                    /\ spos' = BuiltAfter(DefaultAgent)
       ELSE
            /\ built' = [built EXCEPT ![DefaultAgent] = Some(LoadedTools(<<>>))]
            /\ spos' = BuiltAfter(DefaultAgent)
            /\ UNCHANGED <<client, tools_cache, initialized, pc, mine, cont,
                           rlast, slog>>
    /\ UNCHANGED <<gen, cfgServers, cfgHeaders, cfgMcpEnabled>>
    /\ UNCHANGED <<coordVars, confVars>>

\* The discovery the startup is suspended in completes.  When initialize
\* raises, a specialist's factory lets the exception through
\* (specialized_agent.py:67), the loader of the ops agent catches it
\* (agent.py:98-100).
StartResume(failed) ==
    /\ spos \in Agents
    /\ InitializeReturns(StartupTask, failed)
    /\ slog' = Append(slog, rlast')
    /\ IF spos \in Specialized THEN
            IF rlast'.how = "raised" THEN spos' = "failed" /\ UNCHANGED built
            ELSE /\ built' = [built EXCEPT ![spos] = Some(rlast'.ret)]
                 /\ spos' = BuiltAfter(spos)
       ELSE /\ built' = [built EXCEPT ![DefaultAgent] =
                            Some(LoadedTools(IF rlast'.how = "raised" THEN <<>>
                                             ELSE GetTools(NoServer)'))]
            /\ spos' = BuiltAfter(DefaultAgent)
    /\ UNCHANGED cfgMcpEnabled

\* The registry in use once the service runs.
Running(A) == spos = "done" /\ A

StartNext ==
    \/ StartSpecialist
    \/ StartOps
    \/ \E failed \in SUBSET Providers : StartResume(failed)
    \/ ServerChange
    \/ \E p \in Callers, s \in ServerArgs : Running(GetToolsCall(p, s))
    \/ \E p \in Callers : Running(RefreshEnter(p))
    \/ \E p \in Callers, failed \in SUBSET Providers : Running(RefreshResume(p, failed))
    \/ \E p \in Callers : Running(Close(p))

SpecStart == StartInit /\ [][StartNext]_vars

\* create_ops_agent on its own, on a registry nothing has initialized yet,
\* and the registry in use afterwards.
OpsStart ==
    /\ RegInit
    /\ spos = DefaultAgent
    /\ built = [a \in Agents |-> None]
    /\ slog = <<>>
    /\ cfgMcpEnabled \in BOOLEAN
    /\ CoordAtRest
    /\ ConfAtRest

OpsNext ==
    \/ StartOps
    \/ \E failed \in SUBSET Providers : StartResume(failed)
    \/ ServerChange
    \/ \E p \in Callers, s \in ServerArgs : Running(GetToolsCall(p, s))
    \/ \E p \in Callers : Running(RefreshEnter(p))
    \/ \E p \in Callers, failed \in SUBSET Providers : Running(RefreshResume(p, failed))
    \/ \E p \in Callers : Running(Close(p))

SpecOps == OpsStart /\ [][OpsNext]_vars

\* The configuration on every config.yaml of the model, under any
\* environment.
ConfStart ==
    /\ config_file \in {None} \cup {Some(d) : d \in FileData}
    /\ environ = [v \in EnvVars |-> None]
    /\ config_instance = None
    /\ config_status = "none"
    /\ RegAtRest
    /\ CoordAtRest

ConfNext ==
    \/ \E var \in EnvVars : \E value \in EnvValues[var] : Setenv(var, value)
    \/ GetAgentConfig

SpecConf == ConfStart /\ [][ConfNext]_vars

\* --------------------------------------------------- claims on the registry
\* A specialist factory call or a get_tools call for a named provider has
\* just returned a tool list (rlast.ret) for provider rlast.server.
ToolsHandedFor(P) ==
    /\ rlast.server = P
    /\ \/ rlast.op \in {"build", "get_tools"} /\ rlast.how = "ok"
       \/ rlast.op = "initialize" /\ rlast.how \in {"ok", "noop"}

\* C1: of two initialize calls made concurrently on an uninitialized
\* registry only one performs discovery: never are two callers suspended in
\* the discovery of initialize at the same time.
C1_SingleDiscovery ==
    Cardinality({p \in Callers : pc[p] = "init_await"}) <= 1

\* C2: when exactly one of the enabled providers fails discovery, initialize
\* does not fail: the registry ends initialized, the failing provider has no
\* tools, and get_tools for every other provider returns its full tool list.
C2_PartialFailureIsolated ==
    (/\ rlast.op = "initialize"
     /\ rlast.how \in {"ok", "raised"}
     /\ Cardinality(rlast.conns) >= 2
     /\ Cardinality(rlast.failed) = 1)
    => /\ rlast.how = "ok"
       /\ initialized
       /\ \A Q \in rlast.failed : GetTools(Q) = <<>>
       /\ \A Q \in rlast.conns \ rlast.failed : GetTools(Q) = ToolsOf(Q, gen)

\* C3: a call of initialize made while the registry is initialized is a
\* no-op: it returns at once, starts no discovery, and leaves the client, the
\* tool cache and the initialized flag as they were, whatever configs it is
\* given.
C3_LaterInitializeNoop ==
    [][(initialized /\ \E p \in Callers, cfg \in ServerConfigs : Initialize(p, cfg))
        => /\ UNCHANGED <<client, tools_cache, initialized, pc, mine>>
           /\ rlast'.how = "noop"]_vars

\* C3 witness: an initialize with other, non-empty configs was a no-op on a
\* registry that holds discovered tools.
C3_Witness ==
    /\ rlast.op = "initialize" /\ rlast.how = "noop"
    /\ initialized /\ ~IsNone(tools_cache) /\ ~IsNone(client)
    /\ rlast.conns # {} /\ rlast.conns # Val(client)

\* C4: the tool list handed out for a connected provider P (to the
\* specialist built for P, or by get_tools(server_name=P)) holds tools of P
\* only: no tool of another provider Q appears in it.
C4_NoCrossProviderTools ==
    \A P \in Providers :
        (ToolsHandedFor(P) /\ P \in rlast.conns)
            => \A i \in DOMAIN rlast.ret : rlast.ret[i].server = P

\* C5: get_tools on an uninitialized registry (before initialize, after a
\* failed initialize, after close) returns the empty list and does not raise.
C5_UninitializedGetToolsEmpty ==
    (rlast.op = "get_tools" /\ ~initialized)
        => rlast.how = "ok" /\ rlast.ret = <<>>

\* C5 witness: get_tools was called on a registry that a failed initialize
\* left uninitialized while a tool list is still cached.
C5_Witness ==
    /\ rlast.op = "get_tools"
    /\ ~initialized
    /\ ~IsNone(tools_cache) /\ Val(tools_cache) # <<>>

\* C6: on an initialized registry get_tools for a provider name that no
\* configuration declares returns the empty list.
C6_UnknownProviderEmpty ==
    (rlast.op = "get_tools" /\ initialized /\ rlast.server = UnknownServer)
        => rlast.ret = <<>>

\* C20: close leaves the registry uninitialized with no client and no cached
\* tools, whatever state it is called in; a close that follows a close
\* changes nothing and does not raise; an initialize that follows a close
\* starts a discovery with a new client.
C20_CloseResets ==
    /\ [](rlast.op = "close"
            => IsNone(client) /\ IsNone(tools_cache) /\ ~initialized
               /\ rlast.how = "ok")
    /\ [][(rlast.op = "close" /\ \E p \in Callers : Close(p))
            => UNCHANGED <<client, tools_cache, initialized>>
               /\ rlast'.how = "ok"]_vars
    /\ [][\A p \in Callers, cfg \in ServerConfigs :
            (rlast.op = "close" /\ Enabled(cfg) # {} /\ Initialize(p, cfg))
                => pc'[p] = "init_await" /\ client' = Some(Enabled(cfg))]_vars

\* C20 witness: close was called on an initialized registry that held a
\* client and discovered tools, while another caller was suspended in a
\* refresh.
C20_Witness ==
    /\ rlast.op = "close"
    /\ rlast.conns # {} /\ rlast.ret # <<>>
    /\ \E p \in Callers : pc[p] = "refresh_await"
    /\ IsNone(client) /\ IsNone(tools_cache) /\ ~initialized

\* A tool list is whole when it is the list one discovery returned: all the
\* tools of a set of servers, of one generation.
Whole(list) ==
    \E C \in SUBSET Providers, g \in 0..MaxGen : list = Discover(C, g)

\* C21: a get_tools call interleaved at any point with a refresh returns a
\* whole tool list, the old one or the new one, never a partly updated one:
\* the cache always holds a whole list, entering a refresh leaves it as it
\* is, and the completion of the re-discovery replaces it in one step by the
\* whole list that discovery returned.
C21_RefreshAtomicForReaders ==
    /\ [](~IsNone(tools_cache) => Whole(Val(tools_cache)))
    /\ [](rlast.op = "get_tools" => Whole(rlast.ret))
    /\ [][(\E p \in Callers : RefreshEnter(p)) => UNCHANGED tools_cache]_vars
    /\ [][\A p \in Callers :
            (RefreshResume(p, {}) /\ mine[p] # {})
                => tools_cache' = Some(Discover(mine[p], gen))]_vars

\* C21 witness: while another caller is suspended in a refresh and the
\* servers already expose new tools, get_tools returned the old list, whole.
C21_Witness ==
    /\ rlast.op = "get_tools" /\ rlast.ret # <<>>
    /\ \E p \in Callers : pc[p] = "refresh_await"
    /\ gen > rlast.ret[1].gen
    /\ rlast.ret = Discover(rlast.conns, rlast.ret[1].gen)

\* C36: an initialize whose discovery raises leaves the registry
\* uninitialized and without cached tools and raises; get_tools then
\* returns the empty list, and the next initialize starts a discovery.
C36_FailedInitializeLeavesNothing ==
    (rlast.op = "initialize" /\ rlast.how = "raised")
        => /\ ~initialized
           /\ IsNone(tools_cache)
           /\ GetTools(NoServer) = <<>>

\* C37: when the re-discovery of refresh_tools fails, nothing is raised and
\* the cache stays as it is: the call returns the cached list, or the empty
\* list when there is none, and get_tools returns afterwards what it
\* returned before; refresh_tools on an uninitialized registry returns the
\* empty list and changes nothing.
C37_FailedRefreshKeepsCache ==
    /\ [][\A p \in Callers, failed \in SUBSET Providers :
            (failed # {} /\ RefreshResume(p, failed))
                => /\ UNCHANGED <<client, tools_cache, initialized>>
                   /\ rlast'.how = "ok"
                   /\ rlast'.ret = (IF IsNone(tools_cache) THEN <<>>
                                    ELSE Val(tools_cache))
                   /\ GetTools(NoServer)' = GetTools(NoServer)]_vars
    /\ [][\A p \in Callers :
            (~initialized /\ RefreshEnter(p))
                => /\ UNCHANGED <<client, tools_cache, initialized, pc, mine>>
                   /\ rlast'.how = "refused" /\ rlast'.ret = <<>>]_vars

\* C37 witness: a refresh whose re-discovery failed for one server has
\* returned the cached list of an initialized registry.
C37_Witness ==
    /\ rlast.op = "refresh_tools" /\ rlast.failed # {}
    /\ initialized /\ ~IsNone(tools_cache)
    /\ rlast.ret = Val(tools_cache) /\ rlast.ret # <<>>

\* C38: in every reachable state the registry holds cached tools only while
\* it is initialized, also when close runs while an initialize or a
\* refresh_tools is suspended in its discovery: no cache is written back
\* after a close.
C38_CacheOnlyWhileInitialized ==
    (~IsNone(tools_cache) /\ Val(tools_cache) # <<>>) => initialized

\* C39: in every reachable state a registry that is initialized and holds
\* cached tools holds a client as well, also when initialize and close
\* interleave, so that refresh_tools on it re-runs the discovery.
C39_InitializedHasClient ==
    (initialized /\ ~IsNone(tools_cache) /\ Val(tools_cache) # <<>>)
        => ~IsNone(client)

\* ---------------------------------------------------- claims on the startup
InList(t, list) == \E i \in DOMAIN list : list[i] = t

\* The startup's initialize call raised.
LoaderInitializeRaised ==
    \E i \in DOMAIN slog : slog[i].op = "initialize" /\ slog[i].how = "raised"

\* C31: loading the ops agent's tools never fails because of MCP: with MCP
\* disabled, with an initialize that raises and with a discovery that
\* returns nothing, create_ops_agent completes and the list it was created
\* with holds every agent-side tool.
C31_OpsLoadingSurvivesMcp ==
    /\ spos # "failed"
    /\ spos = "done" =>
         /\ ~IsNone(built[DefaultAgent])
         /\ \A i \in DOMAIN AgentSideTools :
                InList(AgentSideTools[i], AgentTools(DefaultAgent))

\* C31 witness: the loader's initialize raised and the ops agent was built
\* all the same, with the agent-side tools.
C31_Witness ==
    /\ spos = "done" /\ cfgMcpEnabled /\ LoaderInitializeRaised
    /\ AgentTools(DefaultAgent) = AgentSideTools

\* C32: with MCP enabled and at least one tool discovered the ops agent
\* holds the MCP tools and the memory tool and nothing else, one tool more
\* than were discovered; with MCP disabled or failing it holds the memory
\* tool only.
C32_McpToolsPlusMemoryOnly ==
    (spos = "done" /\ ~IsNone(built[DefaultAgent])) =>
        LET tools == AgentTools(DefaultAgent)
            mcp == SelectSeq(tools, LAMBDA t : t.server # "agent_side")
        IN  /\ \A i \in DOMAIN tools :
                    tools[i].server = "agent_side" => tools[i] = MemoryTool
            /\ Len(tools) = Len(mcp) + 1
\* The discoveries (awaited client.get_tools() of initialize) in a log.
Discoveries(log) == Cardinality({i \in 1..Len(log) : log[i].how = "suspended"})

\* C22: when every provider is disabled in the configuration, the startup
\* succeeds and each of the four agents the coordinator builds (ansible,
\* openshift, terraform and ops) has no tools, so that no conversation can
\* get a tool-result turn.
C22_AllDisabledNoTools ==
    (spos = "done" /\ Enabled(cfgServers) = {})
        => \A a \in Agents : AgentTools(a) = <<>>

C25_LazyInitOnce ==
    /\ [](Discoveries(slog) <= 1)
    /\ [](Enabled(cfgServers) = {} => Discoveries(slog) = 0)
    /\ [](\A i \in 1..Len(slog) :
            slog[i].op = "initialize" => slog[i].conns = Enabled(cfgServers))
    /\ [][(initialized /\ StartSpecialist) => rlast'.op = "build"]_vars
    /\ [][(~initialized /\ StartSpecialist /\ rlast'.how # "raised")
            => rlast'.op = "initialize"]_vars

\* C25 witness: the startup is over; building the first specialist made the
\* one discovery, the later specialists were built without initialize.
C25_Witness ==
    /\ spos = "done"
    /\ Discoveries(slog) = 1
    /\ Len(slog) >= 4
    /\ slog[1].op = "initialize" /\ slog[1].how = "suspended"
    /\ slog[3].op = "build" /\ slog[4].op = "build"

\* C30: the tool list of an agent that has been built is frozen: no later
\* step, a refresh_tools or a close of the registry among them, changes the
\* list the agent holds.
C30_BoundToolsFrozen ==
    [][\A a \in Agents :
          ~IsNone(built[a])
              => ~IsNone(built'[a]) /\ AgentTools(a)' = AgentTools(a)]_vars

\* C30 witness: after the startup the servers changed their tools and a
\* refresh replaced the registry's cache by the new list; the ansible
\* specialist holds the list it was built with.
C30_Witness ==
    /\ spos = "done"
    /\ rlast.op = "refresh_tools" /\ rlast.how = "ok"
    /\ ~IsNone(tools_cache)
    /\ Val(tools_cache) = Discover(rlast.conns, 1)
    /\ AgentTools("ansible_agent") = Discover(rlast.conns, 0)
    /\ AgentTools("ansible_agent") # <<>>

\* ------------------------------------------------ claims on the coordinator
\* C7: for a conversation that is empty or has no user turn the router
\* returns ops_agent and the classification call is not made.
C7_NoUserTurnDefault ==
    (cpc = "agent" /\ (messages = <<>> \/ HumanIdx(messages) = {}))
        => route_decision = DefaultAgent /\ ~classified /\ cls = NoValue

\* C7 witness: the router has run on a non-empty conversation without a user
\* turn.
C7_Witness ==
    /\ cpc = "agent" /\ messages # <<>> /\ HumanIdx(messages) = {}
    /\ route_decision = DefaultAgent /\ ~classified

\* C8: when the classification call fails (timeout, malformed output,
\* transport error) the router returns ops_agent and the failure does not end
\* the turn: the graph goes on to the agent node.
C8_ClassifierFailureDefault ==
    (classified /\ cls \in ClassifierFailures)
        => /\ route_decision = DefaultAgent
           /\ cpc = "agent" => status = "none"

\* C8 witness: the classification call timed out and the graph is about to
\* dispatch to ops_agent.
C8_Witness ==
    /\ cpc = "agent" /\ classified /\ cls = "timeout"
    /\ route_decision = DefaultAgent /\ status = "none"

\* C9: once the router has run, route_decision is set and is one of the four
\* agents, so the conditional edge names a node of the graph.
C9_RouteDecisionClosed ==
    /\ route_decision \in Agents \cup {NoValue}
    /\ (cpc = "agent" \/ (turns >= 1 /\ cpc = "idle")) => RouteToAgent \in Agents

\* C9 witness: the router has classified a user turn as one for terraform.
C9_Witness ==
    /\ cpc = "agent" /\ classified /\ cls = "terraform_agent"
    /\ route_decision = "terraform_agent"

C11_AlwaysNewTurn ==
    (cpc = "idle" /\ turns >= 1)
        => status = "ok" /\ Len(messages) > Len(entered)

\* C17: when a specialist was active and the conversation ends with a turn
\* of that specialist followed by a user's reply, the router decides for the
\* specialist that was active.
C17_ContinuityKeepsSpecialist ==
    (/\ cpc = "agent"
     /\ current_agent \in Specialized
     /\ Len(messages) >= 2
     /\ messages[Len(messages) - 1].type = "ai"
     /\ messages[Len(messages)].type = "human"
     /\ messages[Len(messages)].content = "text")
    => route_decision = current_agent

IsPrefix(a, b) ==
    /\ Len(a) <= Len(b)
    /\ \A i \in 1..Len(a) : b[i] = a[i]

\* C18: the turn sequence is append-only: every step of the coordinator
\* leaves the turns already present in place, in the same order, ahead of
\* the turns it adds.
C18_AppendOnly == [][IsPrefix(messages, messages')]_vars

\* C18 witness: a second invocation has completed and merged the three
\* turns of a loop behind the turns it started from.
C18_Witness ==
    /\ cpc = "idle" /\ status = "ok" /\ turns = 2
    /\ Len(entered) >= 3
    /\ Len(messages) = Len(entered) + 3
    /\ IsPrefix(entered, messages)

\* C19: after every completed invocation current_agent is the agent whose
\* node ran, which is the route_decision the router stored.
C19_CurrentAgentIsRoute ==
    (cpc = "idle" /\ status = "ok")
        => current_agent = route_decision /\ current_agent \in Agents

\* C19 witness: a conversation in which terraform_agent was active was
\* classified for ops_agent, whose node ran and returned.
C19_Witness ==
    /\ cpc = "idle" /\ status = "ok" /\ turns = 1
    /\ classified /\ cls = DefaultAgent
    /\ current_agent = DefaultAgent
    /\ Len(messages) > Len(entered)

\* C26: every invocation of the coordinator goes from routing to dispatch to
\* its end: the router runs first and once, route_decision is written by
\* the router only, then the one agent node named by route_decision runs,
\* and then the graph ends; no agent node runs before the router and no
\* second one runs in the same invocation.
C26_RouteThenDispatchThenDone ==
    /\ [](cpc = "router" => path = <<>>)
    /\ [](cpc = "agent" => path = <<"router">>)
    /\ []((cpc = "idle" /\ turns >= 1)
            => path = <<"router", route_decision>> /\ route_decision \in Agents)
    /\ [][route_decision' # route_decision => cpc = "router"]_vars
    /\ [][cpc' # cpc => <<cpc, cpc'>> \in { <<"idle", "router">>, <<"router", "agent">>,
                                           <<"agent", "idle">> }]_vars

\* C26 witness: the second invocation of a conversation has ended after the
\* router and then the node of openshift_agent, and only these, ran.
C26_Witness ==
    /\ cpc = "idle" /\ turns = 2 /\ status = "ok"
    /\ classified /\ cls = "openshift_agent"
    /\ path = <<"router", "openshift_agent">>

Blank(t) == \A i \in 1..Len(t) : SubSeq(t, i, i) \in {" ", "\t", "\n", "\r"}

\* C27: when the text extracted from the latest user turn is empty or
\* whitespace-only, the router returns ops_agent and does not invoke the
\* classification call.
C27_BlankTextDefault ==
    (/\ cpc = "agent"
     /\ HumanIdx(messages) # {}
     /\ Blank(ExtractText(LastUserMessage(messages))))
    => /\ route_decision = DefaultAgent
       /\ ~classified /\ cls = NoValue /\ IsNone(asked)

\* C27 witness: the router has run on a conversation whose latest user turn
\* is a list whose first part is a text of two spaces, and returned
\* ops_agent without classifying.
C27_Witness ==
    /\ cpc = "agent" /\ HumanIdx(messages) # {}
    /\ IsList(LastUserMessage(messages))
    /\ Len(LastUserMessage(messages).parts) = 2
    /\ ExtractText(LastUserMessage(messages)) = "  "
    /\ route_decision = DefaultAgent /\ ~classified

\* The textual parts of a list content: strs and dicts with a text entry.
Textual(part) == ~IsDict(part) \/ "text" \in DOMAIN part
PartText(part) == IF IsDict(part) THEN part.text ELSE part.str
FirstTextual(m) ==
    m.parts[CHOOSE i \in 1..Len(m.parts) :
                /\ Textual(m.parts[i])
                /\ \A j \in 1..(i - 1) : ~Textual(m.parts[j])]

\* C28: when the content of the latest user turn is a list of parts, the
\* text the router classifies is the first textual part of the list,
\* whatever its position; when the content is a str, it is that str.
C28_FirstTextualPartClassified ==
    (cpc = "agent" /\ HumanIdx(messages) # {})
    => IF IsList(LastUserMessage(messages))
       THEN (/\ \E i \in 1..Len(LastUserMessage(messages).parts) :
                    Textual(LastUserMessage(messages).parts[i])
             /\ ~Blank(PartText(FirstTextual(LastUserMessage(messages)))))
            => /\ classified
               /\ Val(asked).content =
                    PartText(FirstTextual(LastUserMessage(messages)))
       ELSE classified
            => Val(asked).content = LastUserMessage(messages).content

\* One line of the context window: the role, the turn's text cut to its
\* first 200 characters and followed by "..." when it is longer.
CtxLine(m) ==
    Sender(m) \o ": "
    \o (IF Len(MsgContent(m)) > 200
        THEN SubSeq(MsgContent(m), 1, 200) \o "..."
        ELSE MsgContent(m))
    \o "\n"

\* C29: the context window sent to the classifier holds the last three turns
\* of a conversation of three or more, the two turns of a conversation of
\* two, and nothing for a single turn; one line per turn, oldest first, the
\* text of a turn cut to its first 200 characters and followed by "..." when
\* it is longer than 200, and as it is otherwise.
C29_ContextWindow ==
    ~IsNone(asked)
    => /\ Len(messages) = 1 => Val(asked).context = ""
       /\ Len(messages) = 2
            => Val(asked).context = CtxLine(messages[1]) \o CtxLine(messages[2])
       /\ Len(messages) >= 3
            => Val(asked).context =
                 CtxLine(messages[Len(messages) - 2])
                 \o CtxLine(messages[Len(messages) - 1])
                 \o CtxLine(messages[Len(messages)])

\* C29 witness: a conversation of four turns was classified, its second
\* turn of exactly 200 and its third of 201 characters.
C29_Witness ==
    /\ cpc = "agent" /\ classified /\ ~IsNone(asked)
    /\ Len(messages) = 4
    /\ ~IsList(messages[2]) /\ Len(messages[2].content) = 200
    /\ ~IsList(messages[3]) /\ Len(messages[3].content) = 201
    /\ messages[2].type = "ai" /\ messages[3].type = "ai"
    /\ Len(Val(asked).context) = (7 + 200 + 1) + (7 + 203 + 1) + (6 + 9 + 1)

\* C33: when a turn is dispatched to ops_agent and the conversation does not
\* begin with a directive turn, the turn sequence handed to the ops agent's
\* loop begins with the system prompt, so every sequence handed to it begins
\* with a directive turn.
C33_OpsAgentGetsSystemPrompt ==
    (route_decision = DefaultAgent /\ ~IsNone(handed))
        => Val(handed)[1].type = "system"

\* C40: when the configuration holds no instruction text for a specialist's
\* key, absent or empty, dispatch to the specialist does not fail: its loop
\* is handed the conversation as it is, without a directive turn in front,
\* and the invocation ends with current_agent naming the specialist unless
\* the loop itself raises.
C40_NoInstructionTextStillDispatches ==
    (/\ cpc = "idle" /\ turns >= 1
     /\ route_decision \in Specialized
     /\ cfgPrompts \in {"no_attr", "empty"}
     /\ entered # <<>>)
        => /\ ~IsNone(handed)
           /\ Val(handed) = entered
           /\ status = "ok" => current_agent = route_decision

\* C35: what the router passes to the classification call is determined by
\* the messages of the state alone, their types and contents: two states
\* with the same messages that differ in current_agent or in the earlier
\* route_decision give the same input; the agent that was active is no part
\* of it.
C35_PromptFromMessagesOnly ==
    (cpc = "agent" /\ ~IsNone(asked))
        => /\ DOMAIN Val(asked) = {"context", "content"}
           /\ Val(asked).content = ExtractText(LastUserMessage(messages))
           /\ Val(asked).context =
                (IF Len(messages) >= 2
                 THEN ContextLines(RecentMessages(messages), 1) ELSE "")

\* C35 witness: in the second invocation of a conversation, in which a
\* specialist was active and the router had decided before, the router has
\* classified the new user turn.
C35_Witness ==
    /\ cpc = "agent" /\ turns = 2 /\ classified /\ ~IsNone(asked)
    /\ current_agent \in Specialized
    /\ cls # current_agent
    /\ Val(asked).content = "text"

\* ---------------------------------------------- claims on the configuration
\* The value the config file gives a field: the file's, the default where
\* the file does not name the field or does not exist.
FileValue(f) ==
    IF IsNone(config_file) THEN Defaults[f] ELSE FromData(Val(config_file))[f]

\* C34: in a loaded configuration every overridable field whose environment
\* variable is unset, debug included, has the value of the config file;
\* with no config file the load does not fail for want of it and those
\* fields have the built-in defaults.
C34_UnsetVariablesKeepFileValues ==
    /\ config_status = "ok" =>
            \A f \in Fields :
                IsNone(environ[EnvVar[f]]) => Val(config_instance)[f] = FileValue(f)
    /\ IsNone(config_file) => config_status # "RuntimeError"

\* ------------------------------------------------------ claims on the loop
\* C12: a loop whose model asks for a tool in every response ends, and ends
\* after exactly as many round trips (model call, tool execution) as the
\* budget the coordinator supplies, 50.
C12_CeilingAtBudget ==
    lend = "ceiling" => (lpc # "raised" /\ ltrips = RecursionLimit)

UnknownToolStep ==
    /\ lpc = "tools"
    /\ lscn.tool \notin BoundTools(RouteToAgent)
    /\ \E completed \in Permutations(1..lscn.calls) : ToolsExec(completed)

\* C14 as stated: a request that names a tool absent from the agent's tool
\* list appends a tool-result turn with the content "Error: Tool <name> not
\* found" and the loop returns to the model call; nothing is raised.
C14_UnknownToolNotFound ==
    [][UnknownToolStep
        => /\ lpc' = "agent"
           /\ Len(lmsgs') = Len(lmsgs) + lscn.calls
           /\ Last(lmsgs').type = "tool"
           /\ Last(lmsgs').content = "Error: Tool " \o lscn.tool \o " not found"]_vars

\* C14 as amended: such a request appends a tool-result turn whose content
\* is the error text of the tools node, "Error: <name> is not a valid tool,
\* try one of [...].", and the loop returns to the model call; nothing is
\* raised.
C14_UnknownToolErrorTurn ==
    [][UnknownToolStep
        => /\ lpc' = "agent"
           /\ lend' = lend
           /\ Len(lmsgs') = Len(lmsgs) + lscn.calls
           /\ Last(lmsgs').type = "tool"
           /\ Last(lmsgs').content =
                "Error: " \o lscn.tool \o " is not a valid tool, try one of [...]."]_vars

\* C14 witness: ops_agent's model asked for a tool that is not bound, the
\* error turn was appended and the model is to be called again.
C14_Witness ==
    /\ lpc = "agent" /\ ltrips >= 1
    /\ route_decision = DefaultAgent
    /\ lscn.tool = UnknownTool
    /\ Last(lmsgs).type = "tool"

\* The place i of the conversation holds a response of the model that
\* requests tool invocations, and the tools node has run on it.
ExecutedCallAt(i) ==
    /\ i < Len(lmsgs)
    /\ lmsgs[i].type = "ai"
    /\ lmsgs[i].content = CallText(lscn.tool)

\* C24: the tool-result turns of one step are appended in the order in
\* which the model requested the invocations, and the model call of the next
\* round trip begins only when all tool-result turns of the round trip
\* before it have been appended: a response that requests n invocations is
\* followed by exactly their n tool-result turns, first to last, appended in
\* one step, before anything else.
C24_ResultsInRequestOrder ==
    /\ [](\A i \in 1..Len(lmsgs) :
            ExecutedCallAt(i)
                => /\ Len(lmsgs) >= i + lscn.calls
                   /\ \A k \in 1..lscn.calls :
                        /\ lmsgs[i + k].type = "tool"
                        /\ lmsgs[i + k].tool_call_id = k
                   /\ Len(lmsgs) > i + lscn.calls
                        => lmsgs[i + lscn.calls + 1].type = "ai")
    /\ [](lpc = "agent" /\ lcalls >= 1
            => Last(lmsgs).type = "tool" /\ Last(lmsgs).tool_call_id = lscn.calls)
    /\ [][lcalls' = lcalls + 1 => lpc = "agent" /\ ltrips = lcalls]_vars

\* C24 witness: two round trips of two invocations each have been made; the
\* two tool-result turns of the second are the latest turns, and the model
\* is to be called again.
C24_Witness ==
    /\ lpc = "agent" /\ ltrips = 2 /\ lscn.calls = 2
    /\ Len(lmsgs) >= 7
    /\ lmsgs[Len(lmsgs) - 1].type = "tool" /\ lmsgs[Len(lmsgs) - 1].tool_call_id = 1
    /\ Last(lmsgs).type = "tool" /\ Last(lmsgs).tool_call_id = 2

\* C15: when the execution of a bound tool fails (HTTP error, timeout,
\* transport exception) the tool returns an error string, which is appended
\* as a tool-result turn, and the loop goes on with the model call; nothing
\* is raised.
C15_ToolFailureIsErrorTurn ==
    [][(/\ lpc = "tools"
        /\ lscn.tool \in BoundTools(RouteToAgent)
        /\ lscn.outcome \in ToolFailures
        /\ \E completed \in Permutations(1..lscn.calls) : ToolsExec(completed))
        => /\ lpc' = "agent"
           /\ lend' = lend
           /\ Last(lmsgs').type = "tool"
           /\ Last(lmsgs').content \in
                { "Error: Failed to list inventories - " \o lscn.outcome,
                  "Error: Failed to run job - " \o lscn.outcome }]_vars

\* C15 witness: run_ansible_job timed out, its error string is the latest
\* turn and the model is to be called again.
C15_Witness ==
    /\ lpc = "agent" /\ ltrips >= 1
    /\ route_decision = DefaultAgent
    /\ lscn.tool = "run_ansible_job" /\ lscn.outcome = "timeout"
    /\ Last(lmsgs).type = "tool"
    /\ Last(lmsgs).content = "Error: Failed to run job - timeout"

====================
